---- MODULE Spec2Model ----
(***************************************************************************)
(* Model of gym_dobot/envs/dobot_env.py (class DobotEnv).                   *)
(*                                                                         *)
(* Numbers are fixed point: every real of the program is an integer count  *)
(* of thousandths, so 1000 is 1.0, 50 is 0.05 and a position of 32 is      *)
(* 0.032 world units.  The indicator values 0, 1 and -1 that the reward    *)
(* and success functions return are kept as plain integers.                *)
(* A Euclidean norm is carried as its square (an exact integer); the two    *)
(* comparisons the code makes against the threshold are decided exactly on  *)
(* the squares.                                                             *)
(***************************************************************************)
EXTENDS Integers, Sequences, FiniteSets, TLC

VARIABLES
    cfg,        \* the constructor's configuration (immutable after __init__)
    goal,       \* self.goal
    sim,        \* the simulator state the adapter reads and writes
    pc,         \* where the driver (RobotEnv.step / reset) stands
    action_in,  \* the action handed to _set_action in the current step
    ctrl_arg,   \* the argument of utils.ctrl_set_action in the current step
    mocap_arg,  \* the argument of utils.mocap_set_action in the current step
    obs,        \* the dict the last _get_obs returned
    sampled,    \* the value the last _sample_goal returned
    call_args,  \* <<achieved_goal, goal>> handed to compute_reward/_is_success
    reward,     \* the value the last compute_reward returned
    success     \* the value the last _is_success returned

vars == <<cfg, goal, sim, pc, action_in, ctrl_arg, mocap_arg, obs, sampled,
          call_args, reward, success>>

\* A slot that holds no value yet, and a slot that holds v (read it as s[1]).
Nothing == <<>>

Some(v) == <<v>>

-----------------------------------------------------------------------------
(* Bounds of the model.                                                    *)

\* action components range over k * 0.5 for k in -MaxAct .. MaxAct
MaxAct == 4
\* goal coordinates handed to compute_reward/_is_success: 10 mm * (0 .. MaxCoord)
MaxCoord == 6
\* the random generator's fractions: MaxDraw + 1 values spread over [0, 1)
MaxDraw == 4
\* finger joint positions left by a physics step: up to MaxDrift mm off zero
MaxDrift == 1

-----------------------------------------------------------------------------
(* Vectors.                                                                *)

vec_sub(a, b) == [i \in 1..Len(a) |-> a[i] - b[i]]

vec_add(a, b) == [i \in 1..Len(a) |-> a[i] + b[i]]

RECURSIVE sum_sq(_)
sum_sq(v) == IF v = <<>> THEN 0 ELSE Head(v) * Head(v) + sum_sq(Tail(v))

\* fixed-point product of two reals
fmul(a, b) == (a * b) \div 1000

\* assert goal_a.shape == goal_b.shape
same_shape(goal_a, goal_b) == Len(goal_a) = Len(goal_b)

\* goal_distance: np.linalg.norm(goal_a - goal_b, axis=-1), carried as its
\* square.  Callers establish same_shape first (the assertion).
goal_distance(goal_a, goal_b) == sum_sq(vec_sub(goal_a, goal_b))

\* faulty variant: the comparison d >= t
norm_ge(dsq, t) == t <= 0 \/ dsq >= t * t

\* d > t for a norm d >= 0 given by its square dsq
norm_gt(dsq, t) == t < 0 \/ dsq > t * t

\* faulty variant: the comparison d <= t
norm_le(dsq, t) == t >= 0 /\ dsq <= t * t

\* d < t for a norm d >= 0 given by its square dsq
norm_lt(dsq, t) == t > 0 /\ dsq < t * t

\* bool.astype(np.float32)
astype_float(b) == IF b THEN 1 ELSE 0

-----------------------------------------------------------------------------
(* GoalEnv methods.                                                        *)

\* faulty variant: the sparse reward taken from the success test, -(not (d < t))
compute_reward_from_success(achieved_goal, desired, c) ==
    LET d == goal_distance(achieved_goal, desired) IN
    IF c.reward_type = "sparse"
    THEN 0 - astype_float(~norm_lt(d, c.distance_threshold))
    ELSE [neg_norm_sq |-> d]

\* compute_reward: sparse gives -(d > threshold); dense gives -d, carried as
\* the record [neg_norm_sq |-> d^2].
compute_reward(achieved_goal, desired, c) ==
    LET d == goal_distance(achieved_goal, desired) IN
    IF c.reward_type = "sparse"
    THEN 0 - astype_float(norm_gt(d, c.distance_threshold))
    ELSE [neg_norm_sq |-> d]

\* _is_success: (d < threshold).astype(np.float32)
_is_success(achieved_goal, desired_goal, c) ==
    LET d == goal_distance(achieved_goal, desired_goal) IN
    astype_float(norm_lt(d, c.distance_threshold))

-----------------------------------------------------------------------------
(* _set_action.                                                            *)

\* faulty variant: the scale factor 0.5
pos_ctrl_half(action) == [i \in 1..3 |-> fmul(action[i], 500)]

\* faulty variant: the clip of the commented-out lines 76-78 applied after scaling
pos_ctrl_clipped(action) ==
    [i \in 1..3 |->
        LET p == fmul(action[i], 50) IN
        IF p > 50 THEN 50 ELSE IF p < -50 THEN -50 ELSE p]

\* pos_ctrl = action[:3]; pos_ctrl *= 0.05
pos_ctrl(action) == [i \in 1..3 |-> fmul(action[i], 50)]

\* rot_ctrl = [-1, 0, 0, 0]
rot_ctrl == <<-1000, 0, 0, 0>>

\* faulty variant: the blocked flag is ignored
gripper_ctrl_unblocked(action, c) == <<action[4], 0 - action[4]>>

\* gripper_ctrl = np.array([g, -g]), zeroed when the gripper is blocked
gripper_ctrl(action, c) ==
    LET g == action[4]
        mirrored == <<g, 0 - g>>
    IN IF c.block_gripper THEN [i \in 1..2 |-> 0] ELSE mirrored

\* action = np.concatenate([pos_ctrl, rot_ctrl, gripper_ctrl])
set_action_command(action, c) ==
    pos_ctrl(action) \o rot_ctrl \o gripper_ctrl(action, c)

-----------------------------------------------------------------------------
(* _sample_goal.                                                           *)

\* goal[2] starts at 0.032
BaseHeight == 32

\* object_qpos[2] = 0.032
ObjectHeight == 32

\* np_random.uniform(low, high) = low + (high - low) * r, r in [0, 1)
uniform(low, high, r) == low + fmul(high - low, r)

\* pos = [0.8, 0.685, 0.22725]; only components 0 and 1 are ever read
region_pos == <<800, 685>>

\* size = [0.335, 0.165, 0.21225] - 0.025; only components 0 and 1 are read
region_size == <<335 - 25, 165 - 25>>

region_up == vec_add(region_pos, region_size)

region_low == vec_sub(region_pos, region_size)

\* faulty variant: without an object the offset is subtracted
_sample_goal_lowered(rx, ry, rc, rz, c) ==
    LET base == <<uniform(region_low[1], region_up[1], rx),
                  uniform(region_low[2], region_up[2], ry),
                  BaseHeight>>
        raised == [base EXCEPT ![3] = @ + uniform(0, 250, rz)]
        lowered == [base EXCEPT ![3] = @ - uniform(0, 250, rz)]
    IN IF c.has_object
       THEN IF c.target_in_the_air /\ uniform(0, 1000, rc) < 500
            THEN raised ELSE base
       ELSE lowered

\* The four draws are taken in the order rx, ry, rc, rz; rc and rz are
\* consumed only on the branches that call the generator.
_sample_goal(rx, ry, rc, rz, c) ==
    LET base == <<uniform(region_low[1], region_up[1], rx),
                  uniform(region_low[2], region_up[2], ry),
                  BaseHeight>>
        raised == [base EXCEPT ![3] = @ + uniform(0, 250, rz)]
    IN IF c.has_object
       THEN IF c.target_in_the_air /\ uniform(0, 1000, rc) < 500
            THEN raised ELSE base
       ELSE raised

-----------------------------------------------------------------------------
(* The simulator as the adapter sees it.                                    *)
(*                                                                         *)
(* State proper: qpos and qvel of the robot joints (one arm joint and the   *)
(* two finger joints, in that order), the free joint of the object (7       *)
(* positions, 6 velocities) and model.site_pos of the target marker.        *)
(* Derived by sim.forward(): the site positions, rotations and velocities.  *)

RobotJoints ==
    <<"dobot:joint1", "dobot:l_gripper_joint", "dobot:r_gripper_joint">>

JointSet == {RobotJoints[i] : i \in 1..Len(RobotJoints)}

\* where the grip site rests after _env_setup (gripper_target), and how far
\* the arm joint carries it when fully extended (down onto the table)
HomeGrip == <<800, 760, 370>>

GripTravel == <<0, -75, -338>>

\* world position of the body that carries the target marker
FloorPos == <<800, 750, 0>>

Upright == <<1000, 0, 0, 0>>

Yawed == <<707, 0, 0, 707>>

vec_scale(v, k) == [i \in 1..Len(v) |-> fmul(v[i], k)]

\* rotation matrix of a quaternion (the upright one and a quarter turn in yaw)
quat2mat(q) ==
    IF q = Yawed
    THEN <<<<0, -1000, 0>>, <<1000, 0, 0>>, <<0, 0, 1000>>>>
    ELSE <<<<1000, 0, 0>>, <<0, 1000, 0>>, <<0, 0, 1000>>>>

\* rotations.mat2euler on rotations about the vertical axis: roll and pitch
\* are 0 and yaw is atan2(m[1][0], m[0][0])
mat2euler(m) ==
    LET sin == m[2][1]
        cos == m[1][1]
        yaw == IF sin = 0 THEN (IF cos >= 0 THEN 0 ELSE 3142)
               ELSE IF sin > 0 THEN 1571 ELSE -1571
    IN <<0, 0, yaw>>

\* sim.forward(): the quantities that depend on qpos, qvel and site_pos
forward(s) ==
    [s EXCEPT
       !.grip_xpos = vec_add(HomeGrip, vec_scale(GripTravel, s.qpos["dobot:joint1"])),
       !.grip_xvelp = vec_scale(GripTravel, s.qvel["dobot:joint1"]),
       !.object_xpos = IF s.object_qpos = <<>> THEN <<>>
                       ELSE SubSeq(s.object_qpos, 1, 3),
       !.object_xmat = IF s.object_qpos = <<>> THEN <<>>
                       ELSE quat2mat(SubSeq(s.object_qpos, 4, 7)),
       !.object_xvelp = IF s.object_qpos = <<>> THEN <<>>
                        ELSE SubSeq(s.object_qvel, 1, 3),
       !.object_xvelr = IF s.object_qpos = <<>> THEN <<>>
                        ELSE SubSeq(s.object_qvel, 4, 6),
       !.target_xpos = vec_add(FloorPos, s.target_site_pos)]

\* sim.data.set_joint_qpos(name, value)
set_joint_qpos(s, name, value) ==
    IF name = "object0:joint" THEN [s EXCEPT !.object_qpos = value]
    ELSE [s EXCEPT !.qpos[name] = value]

\* sim.data.get_joint_qpos(name)
get_joint_qpos(s, name) ==
    IF name = "object0:joint" THEN s.object_qpos ELSE s.qpos[name]

\* sim.data.get_site_xpos(name)
get_site_xpos(s, name) ==
    CASE name = "dobot:grip" -> s.grip_xpos
      [] name = "object0" -> s.object_xpos
      [] name = "target0" -> s.target_xpos

\* sim.data.get_site_xvelp(name)
get_site_xvelp(s, name) ==
    CASE name = "dobot:grip" -> s.grip_xvelp
      [] name = "object0" -> s.object_xvelp

\* utils.robot_get_obs: qpos and qvel of the robot joints, in joint order
robot_get_obs(s) ==
    [qpos |-> [i \in 1..Len(RobotJoints) |-> s.qpos[RobotJoints[i]]],
     qvel |-> [i \in 1..Len(RobotJoints) |-> s.qvel[RobotJoints[i]]]]

\* sim.set_state(state): qpos and qvel are restored; model.site_pos and the
\* derived quantities are not touched
set_state(s, state) ==
    [s EXCEPT !.qpos = state.qpos, !.qvel = state.qvel,
              !.object_qpos = state.object_qpos,
              !.object_qvel = state.object_qvel]

\* the state captured after _env_setup: the arm at its target pose, fingers
\* at rest, the object (if any) lying on the table, the marker at its body,
\* 20 substeps of 0.002 s, no viewer
InitialSim(c) ==
    forward(
      [qpos |-> [j \in JointSet |-> 0],
       qvel |-> [j \in JointSet |-> 0],
       object_qpos |-> IF c.has_object
                       THEN <<800, 685, ObjectHeight>> \o Upright ELSE <<>>,
       object_qvel |-> IF c.has_object THEN <<0, 0, 0, 0, 0, 0>> ELSE <<>>,
       target_site_pos |-> <<0, 0, 0>>,
       nsubsteps |-> 20, timestep |-> 2,
       viewer |-> FALSE, visual |-> "default",
       grip_xpos |-> <<>>, grip_xvelp |-> <<>>, object_xpos |-> <<>>,
       object_xmat |-> <<>>, object_xvelp |-> <<>>, object_xvelr |-> <<>>,
       target_xpos |-> <<>>])

-----------------------------------------------------------------------------
(* RobotEnv methods.                                                       *)

\* faulty variant: only the left finger is reset
_step_callback_left_only(s, c) ==
    IF c.block_gripper
    THEN forward(set_joint_qpos(s, "dobot:l_gripper_joint", 0))
    ELSE s

\* _step_callback
_step_callback(s, c) ==
    IF c.block_gripper
    THEN forward(set_joint_qpos(
                   set_joint_qpos(s, "dobot:l_gripper_joint", 0),
                   "dobot:r_gripper_joint", 0))
    ELSE s

last_two(v) == SubSeq(v, Len(v) - 1, Len(v))

\* faulty variant: achieved_goal is the gripper position whether or not there is an
\* object
_get_obs_grip_goal(s, g, c) ==
    LET grip_pos == get_site_xpos(s, "dobot:grip")
        dt == s.nsubsteps * s.timestep
        grip_velp == vec_scale(get_site_xvelp(s, "dobot:grip"), dt)
        robot == robot_get_obs(s)
        object_pos == IF c.has_object THEN get_site_xpos(s, "object0") ELSE <<>>
        object_rot == IF c.has_object THEN mat2euler(s.object_xmat) ELSE <<>>
        object_velr == IF c.has_object THEN vec_scale(s.object_xvelr, dt)
                       ELSE <<>>
        object_rel_pos == IF c.has_object THEN vec_sub(object_pos, grip_pos)
                          ELSE <<>>
        object_velp == IF c.has_object
                       THEN vec_sub(vec_scale(get_site_xvelp(s, "object0"), dt),
                                    grip_velp)
                       ELSE <<>>
        gripper_state == last_two(robot.qpos)
        gripper_vel == vec_scale(last_two(robot.qvel), dt)
    IN [observation |-> grip_pos \o object_pos \o object_rel_pos
                        \o gripper_state \o object_rot \o object_velp
                        \o object_velr \o grip_velp \o gripper_vel,
        achieved_goal |-> grip_pos,
        desired_goal |-> g]

\* _get_obs
_get_obs(s, g, c) ==
    LET grip_pos == get_site_xpos(s, "dobot:grip")
        dt == s.nsubsteps * s.timestep
        grip_velp == vec_scale(get_site_xvelp(s, "dobot:grip"), dt)
        robot == robot_get_obs(s)
        object_pos == IF c.has_object THEN get_site_xpos(s, "object0") ELSE <<>>
        object_rot == IF c.has_object THEN mat2euler(s.object_xmat) ELSE <<>>
        object_velr == IF c.has_object THEN vec_scale(s.object_xvelr, dt)
                       ELSE <<>>
        object_rel_pos == IF c.has_object THEN vec_sub(object_pos, grip_pos)
                          ELSE <<>>
        object_velp == IF c.has_object
                       THEN vec_sub(vec_scale(get_site_xvelp(s, "object0"), dt),
                                    grip_velp)
                       ELSE <<>>
        gripper_state == last_two(robot.qpos)
        gripper_vel == vec_scale(last_two(robot.qvel), dt)
        achieved_goal == IF ~c.has_object THEN grip_pos ELSE object_pos
    IN [observation |-> grip_pos \o object_pos \o object_rel_pos
                        \o gripper_state \o object_rot \o object_velp
                        \o object_velr \o grip_velp \o gripper_vel,
        achieved_goal |-> achieved_goal,
        desired_goal |-> g]

\* _render_callback; the target marker is the first site of the model, so
\* sites_offset[0] is the marker's own offset
_render_callback(s, g) ==
    LET sites_offset0 == vec_sub(s.target_xpos, s.target_site_pos)
    IN forward([s EXCEPT !.target_site_pos = vec_sub(g, sites_offset0)])

\* _reset_sim: restore the initial state, randomise the visuals (textures,
\* camera, light: carried as one flag) when a viewer exists and rand_dom is
\* set, place the object at the drawn spot, forward
_reset_sim(s, initial_state, rx, ry, c) ==
    LET restored0 == set_state(s, initial_state)
        restored == IF s.viewer /\ c.rand_dom
                    THEN [restored0 EXCEPT !.visual = "randomized"]
                    ELSE restored0
        object_xpos == <<uniform(region_low[1], region_up[1], rx),
                         uniform(region_low[2], region_up[2], ry)>>
        object_qpos == get_joint_qpos(restored, "object0:joint")
        placed == object_xpos \o <<ObjectHeight>> \o SubSeq(object_qpos, 4, 7)
    IN IF c.has_object
       THEN forward(set_joint_qpos(restored, "object0:joint", placed))
       ELSE forward(restored)

-----------------------------------------------------------------------------
(* Configurations and inputs.                                              *)

Config(block, object, air, threshold, rtype, dom) ==
    [block_gripper |-> block, has_object |-> object,
     target_in_the_air |-> air, distance_threshold |-> threshold,
     reward_type |-> rtype, rand_dom |-> dom]

RewardTypes == {"sparse", "dense"}

\* distance_threshold: a negative one, zero, and the 0.05 of the scenarios
Thresholds == {-10, 0, 50}

\* goals on a 10 mm grid, and two 2-D goals (another shape)
Grid == {10 * k : k \in 0..MaxCoord}

DesiredInputs == (Grid \X Grid \X Grid) \cup {<<0, 0>>, <<30, 40>>}

AchievedInputs == {<<0, 0, 0>>, <<10, 0, 0>>, <<0, 0>>}

\* actions [dx, dy, dz, g] in steps of 0.5, and one of the wrong shape
ActVals == {500 * k : k \in (0 - MaxAct)..MaxAct}

ActionInputs == (ActVals \X ActVals \X ActVals \X ActVals) \cup {<<0, 0, 0>>}

\* fractions r/1000 in [0, 1) the generator may return, 0 included
Draws == {(999 * k) \div MaxDraw : k \in 0..MaxDraw}

\* a simulator that plays no part (the pure-function specifications)
NoSim == [unused |-> TRUE]

-----------------------------------------------------------------------------
(* compute_reward and _is_success applied to drawn inputs.                  *)

InitGoals ==
    /\ cfg \in {Config(FALSE, FALSE, FALSE, t, rt, FALSE) :
                  t \in Thresholds, rt \in RewardTypes}
    /\ call_args \in {<<a, b>> : a \in AchievedInputs, b \in DesiredInputs}
    /\ goal = <<0, 0, 0>>
    /\ sim = NoSim
    /\ pc = "ready"
    /\ action_in = Nothing /\ ctrl_arg = Nothing /\ mocap_arg = Nothing
    /\ obs = Nothing /\ sampled = Nothing
    /\ reward = Nothing /\ success = Nothing

ComputeRewardCall ==
    /\ same_shape(call_args[1], call_args[2])
    /\ reward' = Some(compute_reward(call_args[1], call_args[2], cfg))
    /\ UNCHANGED <<cfg, goal, sim, pc, action_in, ctrl_arg, mocap_arg, obs,
                   sampled, call_args, success>>

IsSuccessCall ==
    /\ same_shape(call_args[1], call_args[2])
    /\ success' = Some(_is_success(call_args[1], call_args[2], cfg))
    /\ UNCHANGED <<cfg, goal, sim, pc, action_in, ctrl_arg, mocap_arg, obs,
                   sampled, call_args, reward>>

NextGoals == ComputeRewardCall \/ IsSuccessCall

SpecGoals == InitGoals /\ [][NextGoals]_vars

-----------------------------------------------------------------------------
(* _set_action applied to drawn actions.                                    *)

InitAction ==
    /\ cfg \in {Config(b, FALSE, FALSE, 50, "sparse", FALSE) : b \in BOOLEAN}
    /\ action_in \in ActionInputs
    /\ call_args = Nothing
    /\ goal = <<0, 0, 0>>
    /\ sim = NoSim
    /\ pc = "ready"
    /\ ctrl_arg = Nothing /\ mocap_arg = Nothing
    /\ obs = Nothing /\ sampled = Nothing
    /\ reward = Nothing /\ success = Nothing

\* _set_action: the shape assertion, then the same command to both appliers
SetActionCall ==
    /\ Len(action_in) = 4
    /\ ctrl_arg' = set_action_command(action_in, cfg)
    /\ mocap_arg' = set_action_command(action_in, cfg)
    /\ UNCHANGED <<cfg, goal, sim, pc, action_in, obs, sampled, call_args,
                   reward, success>>

NextAction == SetActionCall

SpecAction == InitAction /\ [][NextAction]_vars

-----------------------------------------------------------------------------
(* _sample_goal applied to drawn random fractions.                          *)

InitSample ==
    /\ cfg \in {Config(FALSE, o, a, 50, "sparse", FALSE) :
                  o \in BOOLEAN, a \in BOOLEAN}
    /\ call_args = Nothing
    /\ goal = <<0, 0, 0>>
    /\ sim = NoSim
    /\ pc = "ready"
    /\ action_in = Nothing /\ ctrl_arg = Nothing /\ mocap_arg = Nothing
    /\ obs = Nothing /\ sampled = Nothing
    /\ reward = Nothing /\ success = Nothing

SampleGoalCall ==
    \E rx \in Draws, ry \in Draws, rc \in Draws, rz \in Draws :
        /\ sampled' = _sample_goal(rx, ry, rc, rz, cfg)
        /\ UNCHANGED <<cfg, goal, sim, pc, action_in, ctrl_arg, mocap_arg,
                       obs, call_args, reward, success>>

NextSample == SampleGoalCall

SpecSample == InitSample /\ [][NextSample]_vars

-----------------------------------------------------------------------------
(* The episode lifecycle: RobotEnv drives the hooks.                        *)
(*   reset:  _reset_sim, goal = _sample_goal(), _get_obs                    *)
(*   step:   _set_action, sim.step(), _step_callback, _get_obs,             *)
(*           _is_success, compute_reward                                    *)
(*   render: _render_callback                                               *)
(* The values a driver call returned are dropped when the next one starts.  *)

\* the generator's extreme fractions
LifeDraws == {0, 999}

\* the action stepped with
LifeActions == {<<1000, 1000, 1000, 1000>>}

\* arm joint position and velocity a physics step may leave
ArmOutcomes == {<<0, 0>>, <<1000, 1000>>}

ObjectOutcomes == {"rest", "carried", "spun"}

\* target_in_the_air is read only when there is an object; no viewer is
\* attached, so rand_dom stays off
LifeConfigs ==
    {Config(b, TRUE, a, 50, "sparse", FALSE) : b \in BOOLEAN, a \in BOOLEAN}
        \cup {Config(b, FALSE, FALSE, 50, "sparse", FALSE) : b \in BOOLEAN}

SampledGoals(c) ==
    {_sample_goal(rx, ry, rc, rz, c) :
        rx \in LifeDraws, ry \in LifeDraws, rc \in LifeDraws, rz \in LifeDraws}

\* after __init__: _env_setup has run, the initial state is captured and a
\* first goal is sampled
Init ==
    /\ cfg \in LifeConfigs
    /\ goal \in SampledGoals(cfg)
    /\ sim = InitialSim(cfg)
    /\ pc = "ready"
    /\ action_in = Nothing /\ ctrl_arg = Nothing /\ mocap_arg = Nothing
    /\ obs = Nothing /\ sampled = Nothing /\ call_args = Nothing
    /\ reward = Nothing /\ success = Nothing

\* sim.step(): the physics moves the arm, lets the fingers drift and moves
\* the object; the derived quantities follow
physics(s, arm, l, r, o) ==
    LET robot == [s EXCEPT
                    !.qpos = [j \in JointSet |->
                                IF j = "dobot:joint1" THEN arm[1]
                                ELSE IF j = "dobot:l_gripper_joint" THEN l
                                ELSE r],
                    !.qvel = [j \in JointSet |->
                                IF j = "dobot:joint1" THEN arm[2]
                                ELSE IF j = "dobot:l_gripper_joint" THEN 25 * l
                                ELSE 25 * r]]
        grip == forward(robot)
        moved ==
            IF s.object_qpos = <<>> THEN robot
            ELSE IF o = "carried"
            THEN [robot EXCEPT
                    !.object_qpos = grip.grip_xpos \o SubSeq(s.object_qpos, 4, 7),
                    !.object_qvel = grip.grip_xvelp \o <<0, 0, 0>>]
            ELSE IF o = "spun"
            THEN [robot EXCEPT
                    !.object_qpos = SubSeq(s.object_qpos, 1, 3) \o Yawed,
                    !.object_qvel = <<0, 0, 0, 0, 0, 1000>>]
            ELSE [robot EXCEPT !.object_qvel = <<0, 0, 0, 0, 0, 0>>]
    IN forward(moved)

\* step: _set_action(action)
StepSetAction ==
    /\ pc = "ready"
    /\ \E action \in LifeActions :
        /\ Len(action) = 4
        /\ action_in' = action
        /\ ctrl_arg' = set_action_command(action, cfg)
        /\ mocap_arg' = set_action_command(action, cfg)
    /\ obs' = Nothing /\ sampled' = Nothing /\ call_args' = Nothing
    /\ reward' = Nothing /\ success' = Nothing
    /\ pc' = "sim_step"
    /\ UNCHANGED <<cfg, goal, sim>>

\* step: self.sim.step()
SimStep ==
    /\ pc = "sim_step"
    /\ \E arm \in ArmOutcomes, l \in 0..MaxDrift, r \in (0 - MaxDrift)..0,
          o \in ObjectOutcomes :
        sim' = physics(sim, arm, l, r, o)
    /\ pc' = "step_callback"
    /\ UNCHANGED <<cfg, goal, action_in, ctrl_arg, mocap_arg, obs, sampled,
                   call_args, reward, success>>

\* step: self._step_callback()
StepCallback ==
    /\ pc = "step_callback"
    /\ sim' = _step_callback(sim, cfg)
    /\ pc' = "get_obs"
    /\ UNCHANGED <<cfg, goal, action_in, ctrl_arg, mocap_arg, obs, sampled,
                   call_args, reward, success>>

\* step: obs = self._get_obs()
StepGetObs ==
    /\ pc = "get_obs"
    /\ obs' = Some(_get_obs(sim, goal, cfg))
    /\ pc' = "is_success"
    /\ UNCHANGED <<cfg, goal, sim, action_in, ctrl_arg, mocap_arg, sampled,
                   call_args, reward, success>>

\* step: info = {is_success: self._is_success(obs[achieved_goal], self.goal)}
StepIsSuccess ==
    /\ pc = "is_success"
    /\ call_args' = <<obs[1].achieved_goal, goal>>
    /\ same_shape(obs[1].achieved_goal, goal)
    /\ success' = Some(_is_success(obs[1].achieved_goal, goal, cfg))
    /\ pc' = "compute_reward"
    /\ UNCHANGED <<cfg, goal, sim, action_in, ctrl_arg, mocap_arg, obs,
                   sampled, reward>>

\* step: reward = self.compute_reward(obs[achieved_goal], self.goal, info);
\* the step returns
StepComputeReward ==
    /\ pc = "compute_reward"
    /\ same_shape(call_args[1], call_args[2])
    /\ reward' = Some(compute_reward(call_args[1], call_args[2], cfg))
    /\ action_in' = Nothing /\ ctrl_arg' = Nothing /\ mocap_arg' = Nothing
    /\ pc' = "ready"
    /\ UNCHANGED <<cfg, goal, sim, obs, sampled, call_args, success>>

\* reset: self._reset_sim()
ResetSim ==
    /\ pc = "ready"
    /\ \E rx \in LifeDraws, ry \in LifeDraws :
        sim' = _reset_sim(sim, InitialSim(cfg), rx, ry, cfg)
    /\ obs' = Nothing /\ sampled' = Nothing /\ call_args' = Nothing
    /\ reward' = Nothing /\ success' = Nothing
    /\ pc' = "sample_goal"
    /\ UNCHANGED <<cfg, goal, action_in, ctrl_arg, mocap_arg>>

\* reset: self.goal = self._sample_goal().copy()
ResetSampleGoal ==
    /\ pc = "sample_goal"
    /\ \E rx \in LifeDraws, ry \in LifeDraws, rc \in LifeDraws,
          rz \in LifeDraws :
        sampled' = _sample_goal(rx, ry, rc, rz, cfg)
    /\ goal' = sampled'
    /\ pc' = "reset_obs"
    /\ UNCHANGED <<cfg, sim, action_in, ctrl_arg, mocap_arg, obs, call_args,
                   reward, success>>

\* reset: obs = self._get_obs(); the reset returns
ResetGetObs ==
    /\ pc = "reset_obs"
    /\ obs' = Some(_get_obs(sim, goal, cfg))
    /\ pc' = "ready"
    /\ UNCHANGED <<cfg, goal, sim, action_in, ctrl_arg, mocap_arg, sampled,
                   call_args, reward, success>>

\* faulty variant: the marker arithmetic done in place on self.goal
Render_in_place ==
    /\ pc = "ready"
    /\ sim' = _render_callback(sim, goal)
    /\ goal' = vec_sub(goal, vec_sub(sim.target_xpos, sim.target_site_pos))
    /\ UNCHANGED <<cfg, pc, action_in, ctrl_arg, mocap_arg, obs, sampled,
                   call_args, reward, success>>

\* render: self._render_callback()
Render ==
    /\ pc = "ready"
    /\ sim' = _render_callback(sim, goal)
    /\ UNCHANGED <<cfg, goal, pc, action_in, ctrl_arg, mocap_arg, obs,
                   sampled, call_args, reward, success>>

\* _sample_goal called on its own, between driver calls
SampleGoal ==
    /\ pc = "ready"
    /\ \E rx \in LifeDraws, ry \in LifeDraws, rc \in LifeDraws,
          rz \in LifeDraws :
        sampled' = _sample_goal(rx, ry, rc, rz, cfg)
    /\ obs' = Nothing /\ call_args' = Nothing
    /\ reward' = Nothing /\ success' = Nothing
    /\ UNCHANGED <<cfg, goal, sim, pc, action_in, ctrl_arg, mocap_arg>>

Next ==
    \/ StepSetAction \/ SimStep \/ StepCallback \/ StepGetObs
    \/ StepIsSuccess \/ StepComputeReward
    \/ ResetSim \/ ResetSampleGoal \/ ResetGetObs
    \/ Render \/ SampleGoal

Spec == Init /\ [][Next]_vars

-----------------------------------------------------------------------------
(* Properties of the episode lifecycle (under Spec).                        *)

\* C6: in every observation _get_obs returns, achieved_goal is the grip-site
\* position without an object and the object position with one,
\* desired_goal is the stored goal, and without an object the flat vector
\* holds only the gripper's entries (position, finger positions, velocity,
\* finger velocities): the object fields contribute none.
C6_ObservationGoals ==
    obs # Nothing =>
        /\ obs[1].achieved_goal =
             (IF cfg.has_object THEN sim.object_xpos ELSE sim.grip_xpos)
        /\ obs[1].desired_goal = goal
        /\ ~cfg.has_object =>
             /\ Len(obs[1].observation) = 3 + 2 + 3 + 2
             /\ SubSeq(obs[1].observation, 1, 3) = sim.grip_xpos
             /\ SubSeq(obs[1].observation, 4, 5) =
                  <<sim.qpos["dobot:l_gripper_joint"],
                    sim.qpos["dobot:r_gripper_joint"]>>

\* an observation with an object that the physics has carried off the table,
\* so that object and gripper positions differ from the goal and the start
C6_Witness ==
    /\ cfg.has_object /\ obs # Nothing /\ pc = "is_success"
    /\ obs[1].achieved_goal = sim.object_xpos
    /\ sim.object_xpos # sim.grip_xpos
    /\ Len(obs[1].observation) = 25

\* C8: _step_callback leaves both finger joint positions at exactly 0 when
\* the gripper is blocked, whatever the physics step left in them, and
\* leaves the simulator state unchanged when it is not blocked.
C8_StepCallbackFingers ==
    [][(pc = "step_callback" /\ pc' = "get_obs") =>
          /\ cfg.block_gripper =>
               /\ sim'.qpos["dobot:l_gripper_joint"] = 0
               /\ sim'.qpos["dobot:r_gripper_joint"] = 0
          /\ ~cfg.block_gripper => sim' = sim]_vars

\* blocked gripper, just after _step_callback: the fingers are at 0 although
\* the physics step had moved both (their velocities are not 0)
C8_Witness ==
    /\ cfg.block_gripper /\ pc = "get_obs"
    /\ sim.qpos["dobot:l_gripper_joint"] = 0
    /\ sim.qpos["dobot:r_gripper_joint"] = 0
    /\ sim.qvel["dobot:l_gripper_joint"] # 0
    /\ sim.qvel["dobot:r_gripper_joint"] # 0

\* C9: the stored goal changes only at a reset, where it becomes the value
\* _sample_goal returned; every other hook, _sample_goal itself included,
\* leaves it unchanged, and every observation carries the stored goal.
C9_GoalChangesOnlyAtReset ==
    /\ [](obs # Nothing => obs[1].desired_goal = goal)
    /\ [][goal' # goal =>
            /\ pc = "sample_goal" /\ pc' = "reset_obs"
            /\ goal' = sampled']_vars

\* a completed step after a render moved the marker onto the goal: its
\* observation carries the stored goal
C9_Witness ==
    /\ pc = "ready" /\ obs # Nothing /\ reward # Nothing
    /\ obs[1].desired_goal = goal
    /\ sim.target_xpos = goal
    /\ sim.target_site_pos # <<0, 0, 0>>

-----------------------------------------------------------------------------
(* Properties of compute_reward and _is_success (under SpecGoals).          *)

\* the squared Euclidean distance of two goals of up to three coordinates
EuclidSq(a, b) ==
    LET sq(i) == IF i <= Len(a) THEN (a[i] - b[i]) * (a[i] - b[i]) ELSE 0
    IN sq(1) + sq(2) + sq(3)

DistanceExceeds(a, b, t) == ~(t >= 0 /\ EuclidSq(a, b) <= t * t)

DistanceBelow(a, b, t) == t > 0 /\ EuclidSq(a, b) < t * t

DistanceEquals(a, b, t) == t >= 0 /\ EuclidSq(a, b) = t * t

\* C1: with reward type sparse, compute_reward returns 0 or -1, and -1 if and
\* only if the Euclidean distance of the two goals is strictly greater than
\* the distance threshold.
C1_SparseRewardIffBeyondThreshold ==
    (cfg.reward_type = "sparse" /\ reward # Nothing) =>
        /\ reward[1] \in {0, -1}
        /\ reward[1] = -1 <=>
             DistanceExceeds(call_args[1], call_args[2], cfg.distance_threshold)

\* the scenario threshold 0.05, achieved (0,0,0), desired (0,0,0.06): -1
C1_Witness ==
    /\ cfg.reward_type = "sparse" /\ cfg.distance_threshold = 50
    /\ call_args = <<<<0, 0, 0>>, <<0, 0, 60>>>>
    /\ reward = Some(-1)

\* C2: _is_success returns 1 if and only if the distance is strictly less
\* than the threshold, and 0 otherwise (so also at distance = threshold).
C2_SuccessIffWithinThreshold ==
    success # Nothing =>
        /\ success[1] \in {0, 1}
        /\ success[1] = 1 <=>
             DistanceBelow(call_args[1], call_args[2], cfg.distance_threshold)

\* the boundary: |(30,40,0)| = 50 = threshold gives 0
C2_Witness ==
    /\ cfg.distance_threshold = 50
    /\ call_args = <<<<0, 0, 0>>, <<30, 40, 0>>>>
    /\ success = Some(0)

\* C10: on the same pair of goals, success 1 implies sparse reward 0, sparse
\* reward -1 implies success 0, and the two disagree (reward 0, success 0)
\* exactly when the distance equals the threshold.
C10_RewardAgreesWithSuccess ==
    (cfg.reward_type = "sparse" /\ reward # Nothing /\ success # Nothing) =>
        /\ success[1] = 1 => reward[1] = 0
        /\ reward[1] = -1 => success[1] = 0
        /\ (reward[1] = 0 /\ success[1] = 0) <=>
             DistanceEquals(call_args[1], call_args[2], cfg.distance_threshold)

\* both functions applied at distance 50 = threshold: reward 0, success 0
C10_Witness ==
    /\ cfg.reward_type = "sparse" /\ cfg.distance_threshold = 50
    /\ call_args = <<<<0, 0, 0>>, <<0, 0, 50>>>>
    /\ reward = Some(0) /\ success = Some(0)

-----------------------------------------------------------------------------
(* Properties of _set_action (under SpecAction).                            *)

Abs(x) == IF x < 0 THEN 0 - x ELSE x

\* C3: the gripper part (last two entries) of the command handed to the
\* simulator is [0, 0] when the gripper is blocked, whatever act[3] is, and
\* [g, -g] with g = act[3] when it is not.
C3_GripperCommand ==
    ctrl_arg # Nothing =>
        LET g == action_in[4]
            want == IF cfg.block_gripper THEN <<0, 0>> ELSE <<g, 0 - g>>
        IN /\ SubSeq(ctrl_arg, 8, 9) = want
           /\ SubSeq(mocap_arg, 8, 9) = want

\* blocked gripper, act[3] = 1: the gripper part is [0, 0]
C3_Witness ==
    /\ cfg.block_gripper /\ action_in # Nothing /\ Len(action_in) = 4
    /\ action_in[4] = 1000
    /\ ctrl_arg # Nothing /\ SubSeq(ctrl_arg, 8, 9) = <<0, 0>>

\* C4: both appliers receive the same 9-vector [position(3), rotation(4),
\* gripper(2)]; its position part is 0.05 times the action's and its rotation
\* part is the quaternion [-1, 0, 0, 0], blocked or not.
C4_CommandLayout ==
    ctrl_arg # Nothing =>
        /\ ctrl_arg = mocap_arg
        /\ Len(ctrl_arg) = 9
        /\ \A i \in 1..3 : 1000 * ctrl_arg[i] = 50 * action_in[i]
        /\ SubSeq(ctrl_arg, 4, 7) = <<-1000, 0, 0, 0>>

\* the scenario action [1,1,1,1], blocked
C4_Witness ==
    /\ cfg.block_gripper
    /\ action_in = <<1000, 1000, 1000, 1000>>
    /\ ctrl_arg = <<50, 50, 50, -1000, 0, 0, 0, 0, 0>>
    /\ mocap_arg = ctrl_arg

-----------------------------------------------------------------------------
(* Properties of _sample_goal (under SpecSample).                           *)

\* C5 as stated: without an object every sampled goal is strictly higher
\* than the base height 0.032.
C5_GoalStrictlyAboveBase ==
    (~cfg.has_object /\ sampled # Nothing) => sampled[3] > BaseHeight

\* C5 amended: without an object every sampled goal has height at least the
\* base height 0.032 (equal to it when the offset drawn is 0) and at most
\* 0.032 + 0.25.
C5_GoalAtLeastBase ==
    (~cfg.has_object /\ sampled # Nothing) =>
        /\ sampled[3] >= BaseHeight
        /\ sampled[3] <= BaseHeight + 250

\* a goal sampled without an object that lies exactly at the base height
C5_Witness ==
    ~cfg.has_object /\ sampled # Nothing /\ sampled[3] = BaseHeight

====
